---- MODULE Spec2Model ----
(***************************************************************************)
(* Model of make_audiobook.py: main, book_to_text, clean_text_chunk and    *)
(* the Narrator class (rate limiter, synthesis call, text_to_mp3 loop).    *)
(*                                                                         *)
(* A Python str is a sequence of one-character strings.  The wall clock    *)
(* is the value dt.now().minute would return; every read of it in the      *)
(* code is a separate step, and the clock may advance between any two      *)
(* steps.  The synthesis backend is an environment: a call either returns  *)
(* the audio of the submitted text or raises.                              *)
(***************************************************************************)
EXTENDS Integers, Sequences, FiniteSets

VARIABLES
    argv,                    \* sys.argv[1:], the book files (numbered 1..n)
    pc,                      \* position of the process in the code
    status,                  \* exit status of the process, -1 while running
    book,                    \* index in argv of book_file, 0 before the loop
    client,                  \* TRUE once Narrator() has built the client
    _minute,                 \* Narrator._minute
    _requests_this_minute,   \* Narrator._requests_this_minute
    _chars_this_minute,      \* Narrator._chars_this_minute
    text,                    \* main's text, text_to_mp3's argument
    lines,                   \* text.splitlines()
    i,                       \* number of lines the for loop has taken
    text_chunk,              \* the loop's text_chunk
    audio_chunk,             \* the loop's audio_chunk
    out,                     \* bytes of the file opened by text_to_mp3
    files,                   \* books whose .mp3 file exists
    extracted,               \* books book_to_text has been called for
    calls,                   \* synthesis calls of this text_to_mp3 call
    failed,                  \* book whose processing raised, 0 if none
    raised,                  \* the call that raised, "" if none
    now,                     \* wall clock: minute of the hour
    doneThisMinute,          \* calls returned since the clock last advanced
    unit,                    \* clean_text_chunk on its own: the argument
    cleaned,                 \* clean_text_chunk(unit)
    recleaned                \* clean_text_chunk(cleaned)

vars == <<argv, pc, status, book, client, _minute, _requests_this_minute,
          _chars_this_minute, text, lines, i, text_chunk, audio_chunk, out,
          files, extracted, calls, failed, raised, now, doneThisMinute,
          unit, cleaned, recleaned>>

-----------------------------------------------------------------------------
(* Program constants.  The two quotas are scaled down from 200 and 135000, *)
(* and the range of datetime.minute from 60, so that a run of a few lines  *)
(* crosses them; the code compares against them and never uses the values. *)

MAX_REQUESTS_PER_MINUTE == 1
MAX_CHARS_PER_MINUTE == 2
MinutesPerHour == 3

(* Bounds of the model: the books of a run, the lines of a book when the   *)
(* run has several books and when it has one, the characters of a unit     *)
(* handed to clean_text_chunk on its own.                                  *)
MaxDocs == 2
MaxLines == 2
MaxLinesAlone == 3
MaxLen == 7

(* The books of a run whose termination is checked. *)
MaxDocsLive == 1

-----------------------------------------------------------------------------
(* Strings *)

NL == "\n"

StringsUpTo(alphabet, n) == UNION {[1..k -> alphabet] : k \in 0..n}

(* str.splitlines(): the pieces between line breaks, no empty piece after  *)
(* a final line break.                                                     *)
RECURSIVE SplitFrom(_, _, _)
SplitFrom(s, p, cur) ==
    IF p > Len(s) THEN (IF cur = <<>> THEN <<>> ELSE <<cur>>)
    ELSE IF s[p] = NL THEN <<cur>> \o SplitFrom(s, p + 1, <<>>)
    ELSE SplitFrom(s, p + 1, Append(cur, s[p]))

splitlines(s) == SplitFrom(s, 1, <<>>)

-----------------------------------------------------------------------------
(* clean_text_chunk *)

Footnote == <<"F", "o", "o", "t", "n", "o", "t", "e", ":">>

(* re.sub(r"_", " ", s, 1): the first marker only. *)
SubUnderscoreFirst(s) ==
    IF \E p \in 1..Len(s) : s[p] = "_"
    THEN LET f == CHOOSE p \in 1..Len(s) :
                     s[p] = "_" /\ \A q \in 1..(p - 1) : s[q] # "_"
         IN [p \in 1..Len(s) |-> IF p = f THEN " " ELSE s[p]]
    ELSE s

(* re.sub(r"_", " ", s) *)
SubUnderscore(s) == [p \in 1..Len(s) |-> IF s[p] = "_" THEN " " ELSE s[p]]

(* Number of consecutive hyphens of s from position p on. *)
RECURSIVE HyphensAt(_, _)
HyphensAt(s, p) ==
    IF p > Len(s) \/ s[p] # "-" THEN 0 ELSE 1 + HyphensAt(s, p + 1)

(* Length of the match of \-{3} at position p, 0 if there is none. *)
MatchThreeOnly(s, p) == IF HyphensAt(s, p) >= 3 THEN 3 ELSE 0

(* Length of the match of \-{3,} at position p, 0 if there is none: the    *)
(* quantifier is greedy and takes every hyphen of the run.                 *)
MatchHyphens(s, p) == IF HyphensAt(s, p) >= 3 THEN HyphensAt(s, p) ELSE 0

(* A replacement text that removes the run. *)
FootnoteRemoved == <<>>

(* The replacement text of the second re.sub. *)
FootnoteText == Footnote

(* re.sub(r"(\-{3,})", "Footnote:", s): scan left to right, replace each   *)
(* match and go on after it.                                               *)
RECURSIVE SubHyphensFrom(_, _)
SubHyphensFrom(s, p) ==
    IF p > Len(s) THEN <<>>
    ELSE IF MatchHyphens(s, p) > 0
         THEN FootnoteText \o SubHyphensFrom(s, p + MatchHyphens(s, p))
         ELSE <<s[p]>> \o SubHyphensFrom(s, p + 1)

SubHyphens(s) == SubHyphensFrom(s, 1)

clean_text_chunk(s) == SubHyphens(SubUnderscore(s))

-----------------------------------------------------------------------------
(* The synthesis backend: response.audio_content for a submitted text.     *)
(* Distinct texts give distinct, non-empty audio.                          *)

synthesize_speech(s) == <<"mp3">> \o s

-----------------------------------------------------------------------------
(* Inputs *)

(* The lines a book is made of: an empty line, a line of one blank, and a  *)
(* line in italics.                                                        *)
LineVocabulary == {<<>>, <<" ">>, <<"_", "a", "_">>}

(* The text of lines ls, every line ended by a line break. *)
RECURSIVE Unlines(_)
Unlines(ls) == IF ls = <<>> THEN <<>> ELSE Head(ls) \o <<NL>> \o Unlines(Tail(ls))

(* The texts book_to_text may return: up to n lines, the last one with or  *)
(* without its line break.                                                 *)
Texts(n) ==
    LET full == {Unlines(ls) : ls \in StringsUpTo(LineVocabulary, n)}
    IN full \cup {SubSeq(t, 1, Len(t) - 1) : t \in full \ {<<>>}}

Books(n) == [k \in 1..n |-> k]

-----------------------------------------------------------------------------
(* The process *)

Init ==
    /\ argv \in {Books(n) : n \in 0..MaxDocs}
    /\ pc = "main"
    /\ status = -1
    /\ book = 0
    /\ client = FALSE
    /\ _minute = -1
    /\ _requests_this_minute = 0
    /\ _chars_this_minute = 0
    /\ text = <<>>
    /\ lines = <<>>
    /\ i = 0
    /\ text_chunk = <<>>
    /\ audio_chunk = <<>>
    /\ out = <<>>
    /\ files = {}
    /\ extracted = {}
    /\ calls = <<>>
    /\ failed = 0
    /\ raised = ""
    /\ now \in 0..(MinutesPerHour - 1)
    /\ doneThisMinute = 0
    /\ unit = <<>>
    /\ cleaned = <<>>
    /\ recleaned = <<>>

cleanVars == <<unit, cleaned, recleaned>>
limiterVars == <<_minute, _requests_this_minute, _chars_this_minute>>
loopVars == <<text, lines, i, text_chunk, audio_chunk>>
mainVars == <<argv, book, client, extracted, failed, raised, status>>

(* main, no arguments: print the usage and sys.exit(1). *)
Usage ==
    /\ pc = "main"
    /\ argv = <<>>
    /\ pc' = "exit"
    /\ status' = 1
    /\ UNCHANGED <<argv, book, client, extracted, failed, raised, limiterVars,
                   loopVars, out, files, calls, now, doneThisMinute, cleanVars>>

(* The same with the Narrator built before the arguments are looked at. *)
NarratorFirst ==
    /\ pc = "main"
    /\ client' = TRUE
    /\ _minute' = -1
    /\ _requests_this_minute' = 0
    /\ _chars_this_minute' = 0
    /\ pc' = "for"
    /\ UNCHANGED <<argv, book, extracted, failed, raised, status,
                   loopVars, out, files,
                   calls, now, doneThisMinute, cleanVars>>

(* main, with arguments: narrator = Narrator(). *)
NewNarrator ==
    /\ pc = "main"
    /\ argv # <<>>
    /\ client' = TRUE
    /\ _minute' = -1
    /\ _requests_this_minute' = 0
    /\ _chars_this_minute' = 0
    /\ pc' = "for"
    /\ UNCHANGED <<argv, book, extracted, failed, raised, status,
                   loopVars, out, files,
                   calls, now, doneThisMinute, cleanVars>>

(* The same with a Narrator of its own built for every book. *)
NextBookNewNarrator ==
    /\ pc = "for"
    /\ IF book < Len(argv)
       THEN /\ book' = book + 1
            /\ pc' = "book_to_text"
            /\ status' = status
            /\ _minute' = -1
            /\ _requests_this_minute' = 0
            /\ _chars_this_minute' = 0
       ELSE /\ book' = book
            /\ pc' = "exit"
            /\ status' = 0
            /\ UNCHANGED limiterVars
    /\ UNCHANGED <<argv, client, extracted, failed, raised, loopVars, out,
                   files, calls, now, doneThisMinute, cleanVars>>

(* for book_file in sys.argv[1:]: the next book, or the end of main. *)
NextBook ==
    /\ pc = "for"
    /\ IF book < Len(argv)
       THEN /\ book' = book + 1
            /\ pc' = "book_to_text"
            /\ status' = status
       ELSE /\ book' = book
            /\ pc' = "exit"
            /\ status' = 0
    /\ UNCHANGED <<argv, client, extracted, failed, raised, limiterVars,
                   loopVars, out, files, calls, now, doneThisMinute, cleanVars>>

(* text = book_to_text(book_file): the conversion or the fallback read     *)
(* returns a text.                                                         *)
BookToText ==
    /\ pc = "book_to_text"
    /\ \E t \in Texts(IF Len(argv) = 1 THEN MaxLinesAlone ELSE MaxLines) :
           text' = t
    /\ extracted' = extracted \cup {book}
    /\ pc' = "text_to_mp3"
    /\ UNCHANGED <<argv, book, client, failed, raised, status, limiterVars,
                   lines, i, text_chunk, audio_chunk, out, files, calls, now,
                   doneThisMinute, cleanVars>>

(* The same with the loop of main going on to the next book. *)
BookToTextFailsSkips ==
    /\ pc = "book_to_text"
    /\ extracted' = extracted \cup {book}
    /\ failed' = book
    /\ raised' = "book_to_text"
    /\ pc' = "for"
    /\ UNCHANGED <<argv, book, client, status, limiterVars, loopVars, out, files,
                   calls, now, doneThisMinute, cleanVars>>

(* book_to_text: the fallback read raises too; nothing catches it. *)
BookToTextFails ==
    /\ pc = "book_to_text"
    /\ extracted' = extracted \cup {book}
    /\ failed' = book
    /\ raised' = "book_to_text"
    /\ pc' = "exit"
    /\ status' = 1
    /\ UNCHANGED <<argv, book, client, limiterVars, loopVars, out, files, calls,
                   now, doneThisMinute, cleanVars>>

(* text_to_mp3 up to the loop: split the text, open the file for writing. *)
OpenOut ==
    /\ pc = "text_to_mp3"
    /\ lines' = splitlines(text)
    /\ out' = <<>>
    /\ files' = files \cup {book}
    /\ i' = 0
    /\ calls' = <<>>
    /\ pc' = "loop"
    /\ UNCHANGED <<mainVars, limiterVars, text, text_chunk, audio_chunk, now,
                   doneThisMinute, cleanVars>>

(* A loop that skips no line. *)
SkipsNothing(line) == TRUE

(* Whether the loop body runs for a line: `if text_chunk:`. *)
Truthy(line) == line # <<>>

(* The chunk handed to _text_chunk_to_audio_chunk for a line. *)
ChunkOf(line) == clean_text_chunk(line)

(* One turn of the for loop up to the call of _text_chunk_to_audio_chunk,  *)
(* or the end of the loop: the file is closed, text_to_mp3 returns, its    *)
(* locals are gone, and main prints.                                       *)
LoopStep ==
    /\ pc = "loop"
    /\ IF i < Len(lines)
       THEN /\ i' = i + 1
            /\ IF Truthy(lines[i + 1])
               THEN /\ text_chunk' = ChunkOf(lines[i + 1])
                    /\ pc' = "rate_limit"
               ELSE /\ text_chunk' = lines[i + 1]
                    /\ pc' = "loop"
            /\ UNCHANGED <<lines, audio_chunk>>
       ELSE /\ i' = 0
            /\ lines' = <<>>
            /\ text_chunk' = <<>>
            /\ audio_chunk' = <<>>
            /\ pc' = "for"
    /\ UNCHANGED <<mainVars, limiterVars, text, out, files, calls, now,
                   doneThisMinute, cleanVars>>

(* The test of the request counter alone. *)
OverRequestQuota == _requests_this_minute > MAX_REQUESTS_PER_MINUTE

(* _rate_limit, the test of the two counters against the quotas. *)
OverQuota ==
    \/ _requests_this_minute > MAX_REQUESTS_PER_MINUTE
    \/ _chars_this_minute > MAX_CHARS_PER_MINUTE

RateLimitCheck ==
    /\ pc = "rate_limit"
    /\ pc' = IF OverQuota THEN "wait" ELSE "test"
    /\ UNCHANGED <<mainVars, limiterVars, loopVars, out, files, calls, now,
                   doneThisMinute, cleanVars>>

(* A wait for the counters to come down instead. *)
WaitPollOnCounters ==
    /\ pc = "wait"
    /\ pc' = IF OverQuota THEN "sleep" ELSE "test"
    /\ UNCHANGED <<mainVars, limiterVars, loopVars, out, files, calls, now,
                   doneThisMinute, cleanVars>>

(* while dt.now().minute == self._minute: one read of the clock. *)
WaitPoll ==
    /\ pc = "wait"
    /\ pc' = IF now = _minute THEN "sleep" ELSE "test"
    /\ UNCHANGED <<mainVars, limiterVars, loopVars, out, files, calls, now,
                   doneThisMinute, cleanVars>>

(* time.sleep(5) returns. *)
Sleep ==
    /\ pc = "sleep"
    /\ pc' = "wait"
    /\ UNCHANGED <<mainVars, limiterVars, loopVars, out, files, calls, now,
                   doneThisMinute, cleanVars>>

(* if dt.now().minute != self._minute: a second read of the clock. *)
ResetTest ==
    /\ pc = "test"
    /\ pc' = IF now # _minute THEN "reset" ELSE "call"
    /\ UNCHANGED <<mainVars, limiterVars, loopVars, out, files, calls, now,
                   doneThisMinute, cleanVars>>

(* The same with the character counter left as it is. *)
ResetRequestsOnly ==
    /\ pc = "reset"
    /\ _minute' = now
    /\ _requests_this_minute' = 0
    /\ pc' = "call"
    /\ UNCHANGED <<mainVars, _chars_this_minute, loopVars, out, files, calls,
                   now, doneThisMinute, cleanVars>>

(* self._minute = dt.now().minute, a third read, and the counters to 0. *)
Reset ==
    /\ pc = "reset"
    /\ _minute' = now
    /\ _requests_this_minute' = 0
    /\ _chars_this_minute' = 0
    /\ pc' = "call"
    /\ UNCHANGED <<mainVars, loopVars, out, files, calls, now, doneThisMinute,
                   cleanVars>>

(* self.client.synthesize_speech(...) is called with text_chunk. *)
Call ==
    /\ pc = "call"
    /\ calls' = Append(calls, [line |-> i, raw |-> lines[i], text |-> text_chunk])
    /\ pc' = "response"
    /\ UNCHANGED <<mainVars, limiterVars, loopVars, out, files, now,
                   doneThisMinute, cleanVars>>

(* The same with the length of the audio counted. *)
ResponseCountsAudio ==
    /\ pc = "response"
    /\ _requests_this_minute' = _requests_this_minute + 1
    /\ _chars_this_minute' =
           _chars_this_minute + Len(synthesize_speech(text_chunk))
    /\ audio_chunk' = synthesize_speech(text_chunk)
    /\ doneThisMinute' = doneThisMinute + 1
    /\ pc' = "write"
    /\ UNCHANGED <<mainVars, _minute, text, lines, i, text_chunk, out, files,
                   calls, now, cleanVars>>

(* The call returns: the counters are updated, the audio is returned. *)
Response ==
    /\ pc = "response"
    /\ _requests_this_minute' = _requests_this_minute + 1
    /\ _chars_this_minute' = _chars_this_minute + Len(text_chunk)
    /\ audio_chunk' = synthesize_speech(text_chunk)
    /\ doneThisMinute' = doneThisMinute + 1
    /\ pc' = "write"
    /\ UNCHANGED <<mainVars, _minute, text, lines, i, text_chunk, out, files,
                   calls, now, cleanVars>>

(* The same with the exception caught and the unit submitted again. *)
ResponseFailsRetries ==
    /\ pc = "response"
    /\ pc' = "call"
    /\ UNCHANGED <<mainVars, limiterVars, loopVars, out, files, calls, now,
                   doneThisMinute, cleanVars>>

(* The same with the exception caught and the loop going on. *)
ResponseFailsSkips ==
    /\ pc = "response"
    /\ failed' = book
    /\ raised' = "synthesize_speech"
    /\ pc' = "loop"
    /\ UNCHANGED <<argv, book, client, extracted, status, limiterVars, loopVars,
                   out, files, calls, now, doneThisMinute, cleanVars>>

(* The call raises: the with block closes the file, nothing catches the    *)
(* exception and the process ends.                                         *)
ResponseFails ==
    /\ pc = "response"
    /\ failed' = book
    /\ raised' = "synthesize_speech"
    /\ pc' = "exit"
    /\ status' = 1
    /\ UNCHANGED <<argv, book, client, extracted, limiterVars, loopVars, out,
                   files, calls, now, doneThisMinute, cleanVars>>

(* A write to a file opened anew for every chunk. *)
Overwritten(sink, chunk) == chunk

(* A write at the start of the file instead. *)
Prepended(sink, chunk) == chunk \o sink

(* out.write(audio_chunk) *)
Written(sink, chunk) == sink \o chunk

Write ==
    /\ pc = "write"
    /\ out' = Written(out, audio_chunk)
    /\ pc' = "loop"
    /\ UNCHANGED <<mainVars, limiterVars, loopVars, files, calls, now,
                   doneThisMinute, cleanVars>>

(* The wall clock reaches the next minute. *)
Tick ==
    /\ pc \notin {"exit", "clean", "reclean", "cleaned"}
    /\ now' = (now + 1) % MinutesPerHour
    /\ doneThisMinute' = 0
    /\ UNCHANGED <<mainVars, pc, limiterVars, loopVars, out, files, calls,
                   cleanVars>>

Next ==
    \/ Usage
    \/ NewNarrator
    \/ NextBook
    \/ BookToText
    \/ BookToTextFails
    \/ OpenOut
    \/ LoopStep
    \/ RateLimitCheck
    \/ WaitPoll
    \/ Sleep
    \/ ResetTest
    \/ Reset
    \/ Call
    \/ Response
    \/ ResponseFails
    \/ Write
    \/ Tick

Spec == Init /\ [][Next]_vars

(* The steps of the process when every synthesis call returns. *)
Proc ==
    \/ Usage
    \/ NewNarrator
    \/ NextBook
    \/ BookToText
    \/ BookToTextFails
    \/ OpenOut
    \/ LoopStep
    \/ RateLimitCheck
    \/ WaitPoll
    \/ Sleep
    \/ ResetTest
    \/ Reset
    \/ Call
    \/ Response
    \/ Write

NextLive ==
    \/ Proc
    \/ Tick

InitLive ==
    /\ Init
    /\ Len(argv) <= MaxDocsLive

(* The process keeps running and the clock keeps advancing.  The wait      *)
(* loop polls every 5 seconds, far more often than the minute of the hour  *)
(* comes round: of the sleeps that could return in a minute other than     *)
(* the window's one does, and of the polls that could read such a minute   *)
(* one does.                                                               *)
SpecLive ==
    /\ InitLive
    /\ [][NextLive]_vars
    /\ WF_vars(Proc)
    /\ WF_vars(Tick)
    /\ SF_vars(Sleep /\ now # _minute)
    /\ SF_vars(WaitPoll /\ now # _minute)

-----------------------------------------------------------------------------
(* clean_text_chunk on its own, applied to every unit over CleanAlphabet   *)
(* of at most MaxLen characters, and applied again to its result.          *)

CleanAlphabet == {"_", "-", " ", "a"}

InitClean ==
    /\ unit \in StringsUpTo(CleanAlphabet, MaxLen)
    /\ cleaned = <<>>
    /\ recleaned = <<>>
    /\ pc = "clean"
    /\ argv = <<>>
    /\ status = -1
    /\ book = 0
    /\ client = FALSE
    /\ _minute = -1
    /\ _requests_this_minute = 0
    /\ _chars_this_minute = 0
    /\ text = <<>>
    /\ lines = <<>>
    /\ i = 0
    /\ text_chunk = <<>>
    /\ audio_chunk = <<>>
    /\ out = <<>>
    /\ files = {}
    /\ extracted = {}
    /\ calls = <<>>
    /\ failed = 0
    /\ raised = ""
    /\ now = 0
    /\ doneThisMinute = 0

CleanUnit ==
    /\ pc = "clean"
    /\ cleaned' = clean_text_chunk(unit)
    /\ pc' = "reclean"
    /\ UNCHANGED <<mainVars, limiterVars, loopVars, out, files, calls, now,
                   doneThisMinute, unit, recleaned>>

CleanAgain ==
    /\ pc = "reclean"
    /\ recleaned' = clean_text_chunk(cleaned)
    /\ pc' = "cleaned"
    /\ UNCHANGED <<mainVars, limiterVars, loopVars, out, files, calls, now,
                   doneThisMinute, unit, cleaned>>

NextClean ==
    \/ CleanUnit
    \/ CleanAgain

SpecClean == InitClean /\ [][NextClean]_vars

-----------------------------------------------------------------------------
(* Vocabulary of the properties *)

(* The audio of the non-empty lines of ls, each cleaned, in line order. *)
RECURSIVE ExpectedAudio(_)
ExpectedAudio(ls) ==
    IF ls = <<>> THEN <<>>
    ELSE (IF Head(ls) = <<>> THEN <<>>
          ELSE synthesize_speech(clean_text_chunk(Head(ls))))
         \o ExpectedAudio(Tail(ls))

(* The non-empty lines among the first n of ls, as the calls made for them. *)
RECURSIVE ExpectedCalls(_, _)
ExpectedCalls(ls, n) ==
    IF n = 0 THEN <<>>
    ELSE IF ls[n] = <<>> THEN ExpectedCalls(ls, n - 1)
    ELSE Append(ExpectedCalls(ls, n - 1),
                [line |-> n, raw |-> ls[n], text |-> clean_text_chunk(ls[n])])

(* text_to_mp3 has returned to main. *)
Returned == pc = "for" /\ book >= 1

(* The synthesis call of a unit of book `failed` raised. *)
SynthesisFailed == raised = "synthesize_speech"

(* A line with nothing but blanks in it, the empty line included. *)
Blank(line) == \A p \in 1..Len(line) : line[p] = " "

(* The calls whose audio has been written to the file. *)
WrittenCalls ==
    IF pc \in {"response", "write"} \/ (pc = "exit" /\ SynthesisFailed)
    THEN SubSeq(calls, 1, Len(calls) - 1)
    ELSE calls

RECURSIVE AudioOf(_)
AudioOf(cs) ==
    IF cs = <<>> THEN <<>> ELSE synthesize_speech(Head(cs).text) \o AudioOf(Tail(cs))

-----------------------------------------------------------------------------
(* C1: when text_to_mp3 returns normally, the file holds exactly the       *)
(* audio of the cleaned text of each non-empty line, in line order.        *)
C1_SinkIsConcatenation ==
    Returned => out = ExpectedAudio(splitlines(text))

(* text_to_mp3 returned after two calls for different texts. *)
C1_Witness ==
    /\ Returned
    /\ Len(calls) = 2
    /\ calls[1].text # calls[2].text
    /\ calls[1].raw # calls[1].text

(* C2: when the synthesis call of a unit raises, the process ends at once, *)
(* the unit was submitted once and no later one was, the file exists and   *)
(* holds exactly the audio of the non-empty units before the failing one.  *)
C2_FailureLeavesPrefix ==
    SynthesisFailed =>
        /\ pc = "exit"
        /\ status # 0
        /\ failed = book
        /\ book \in files
        /\ i >= 1
        /\ lines = splitlines(text)
        /\ calls = ExpectedCalls(lines, i)
        /\ calls[Len(calls)].line = i
        /\ out = ExpectedAudio(SubSeq(lines, 1, i - 1))

(* The second unit of a text fails; the first one's audio is in the file. *)
C2_Witness ==
    /\ SynthesisFailed
    /\ Len(calls) = 2
    /\ out = synthesize_speech(calls[1].text)
    /\ i < Len(lines)

(* C3: the number of requests and the number of characters counted in the  *)
(* tracked window never exceed the two quotas.                             *)
C3_CountersWithinQuotas ==
    /\ _requests_this_minute <= MAX_REQUESTS_PER_MINUTE
    /\ _chars_this_minute <= MAX_CHARS_PER_MINUTE

(* C4: of the requests that complete within one minute of the wall clock,  *)
(* none is numbered beyond the request quota.                              *)
C4_NoCompletionBeyondQuota ==
    doneThisMinute <= MAX_REQUESTS_PER_MINUTE

(* C5 as stated: no synthesis call is made for a line that is empty or     *)
(* holds only whitespace.                                                  *)
C5_NoCallForBlankLine ==
    \A k \in 1..Len(calls) : ~Blank(calls[k].raw)

(* C5: no synthesis call is made for an empty line, and the file holds the *)
(* audio of the calls made and nothing else, so that an empty line neither *)
(* is submitted nor adds bytes.                                            *)
C5_NoCallForEmptyLine ==
    /\ \A k \in 1..Len(calls) : calls[k].raw # <<>>
    /\ out = AudioOf(WrittenCalls)
    /\ (pc = "loop" /\ i >= 1 /\ lines[i] = <<>>) =>
           \A k \in 1..Len(calls) : calls[k].line # i

(* The loop has passed an empty line that follows a submitted line. *)
C5_Witness ==
    /\ pc = "loop"
    /\ i = 2
    /\ lines[2] = <<>>
    /\ Len(calls) = 1
    /\ out # <<>>

(* C6: the books are taken one at a time in argument order, and once the   *)
(* processing of a book raises the process ends: no later book is          *)
(* extracted, synthesized or given a file.                                 *)
C6_FailureAbortsRun ==
    /\ book \in 0..Len(argv)
    /\ extracted \in {1..book, 1..(book - 1)}
    /\ files \subseteq extracted
    /\ (pc \in {"loop", "rate_limit", "wait", "sleep", "test", "reset", "call",
                "response", "write"}) => book \in files
    /\ failed # 0 =>
           /\ pc = "exit"
           /\ status # 0
           /\ book = failed

(* The first of two books failed in synthesis. *)
C6_Witness ==
    /\ failed = 1
    /\ Len(argv) = 2
    /\ 1 \in files
    /\ pc = "exit"

(* C7: with no arguments the process prints the usage and exits with a     *)
(* status other than 0; no client is built, no call made, no file created. *)
C7_NoArgumentsUsage ==
    argv = <<>> =>
        /\ pc \in {"main", "exit"}
        /\ pc = "exit" => status = 1
        /\ client = FALSE
        /\ files = {}
        /\ extracted = {}
        /\ calls = <<>>

(* The process has exited on the usage message. *)
C7_Witness ==
    /\ argv = <<>>
    /\ pc = "exit"
    /\ status = 1

-----------------------------------------------------------------------------
(* Vocabulary of the properties of clean_text_chunk *)

(* The positions of s at which a whitespace-separated word begins. *)
WordStarts(s) == {p \in 1..Len(s) : s[p] # " " /\ (p = 1 \/ s[p - 1] = " ")}

WordCount(s) == Cardinality(WordStarts(s))

(* The words of s that hold a character other than the italics marker. *)
SpokenWordStarts(s) ==
    {p \in WordStarts(s) :
        \E q \in p..Len(s) : /\ s[q] # "_"
                             /\ \A r \in p..q : s[r] # " "}

(* p..q is a maximal run of hyphens of s. *)
HyphenRun(s, p, q) ==
    /\ p <= q
    /\ \A r \in p..q : s[r] = "-"
    /\ p = 1 \/ s[p - 1] # "-"
    /\ q = Len(s) \/ s[q + 1] # "-"

LongRuns(s) ==
    {pq \in (1..Len(s)) \X (1..Len(s)) :
        HyphenRun(s, pq[1], pq[2]) /\ pq[2] - pq[1] + 1 >= 3}

InLongRun(s, r) == \E pq \in LongRuns(s) : pq[1] <= r /\ r <= pq[2]

(* Where position r of s lands once every long run before it has become    *)
(* the nine characters of "Footnote:".                                     *)
Landing(s, r) ==
    r - Cardinality({x \in 1..(r - 1) : InLongRun(s, x)})
      + 9 * Cardinality({pq \in LongRuns(s) : pq[2] < r})

NoLongRun(s) ==
    \A p \in 1..(Len(s) - 2) : ~(s[p] = "-" /\ s[p + 1] = "-" /\ s[p + 2] = "-")

HasCleaned == pc \in {"reclean", "cleaned"}

(* C8 as stated: the cleaned unit has no italics marker and no fewer       *)
(* whitespace-separated words than the unit.                               *)
C8_WordCountNotSmaller ==
    HasCleaned =>
        /\ \A p \in 1..Len(cleaned) : cleaned[p] # "_"
        /\ WordCount(cleaned) >= WordCount(unit)

(* C8: the cleaned unit has no italics marker, and no fewer words than the *)
(* unit has words that hold a character other than the italics marker.     *)
C8_SpokenWordsKept ==
    HasCleaned =>
        /\ \A p \in 1..Len(cleaned) : cleaned[p] # "_"
        /\ WordCount(cleaned) >= Cardinality(SpokenWordStarts(unit))

(* A unit with an italics marker inside a word and a long run of hyphens. *)
C8_Witness ==
    /\ HasCleaned
    /\ \E p \in 2..(Len(unit) - 1) :
           unit[p] = "_" /\ unit[p - 1] = "a" /\ unit[p + 1] = "a"
    /\ LongRuns(unit) # {}
    /\ WordCount(cleaned) > WordCount(unit)

(* C9: cleaning a cleaned unit gives the same unit. *)
C9_CleanIdempotent ==
    pc = "cleaned" => recleaned = cleaned

(* A unit that cleaning changes in both ways has been cleaned twice. *)
C9_Witness ==
    /\ pc = "cleaned"
    /\ \E p \in 1..Len(unit) : unit[p] = "_"
    /\ LongRuns(unit) # {}
    /\ recleaned # unit

(* C10: in a unit with a run of three or more hyphens, every maximal such  *)
(* run becomes "Footnote:", every other character stays in place (an       *)
(* italics marker as a blank), and no run of three hyphens is left.        *)
C10_LongRunsBecomeFootnote ==
    (HasCleaned /\ LongRuns(unit) # {}) =>
        /\ Len(cleaned) = Len(unit)
                          - Cardinality({x \in 1..Len(unit) : InLongRun(unit, x)})
                          + 9 * Cardinality(LongRuns(unit))
        /\ \A pq \in LongRuns(unit) :
               SubSeq(cleaned, Landing(unit, pq[1]), Landing(unit, pq[1]) + 8)
                   = Footnote
        /\ \A r \in 1..Len(unit) :
               ~InLongRun(unit, r) =>
                   cleaned[Landing(unit, r)]
                       = (IF unit[r] = "_" THEN " " ELSE unit[r])
        /\ NoLongRun(cleaned)

(* A unit with a run of four hyphens between two italics markers. *)
C10_Witness ==
    /\ HasCleaned
    /\ \E pq \in LongRuns(unit) :
           /\ pq[2] - pq[1] + 1 = 4
           /\ pq[1] > 1 /\ unit[pq[1] - 1] = "_"
           /\ pq[2] < Len(unit) /\ unit[pq[2] + 1] = "_"

-----------------------------------------------------------------------------
(* Vocabulary of the properties of the rate limiter and the loop *)

(* Between two books: text_to_mp3 is not running. *)
BetweenBooks == pc \in {"for", "book_to_text", "text_to_mp3"}

(* The limiter as Narrator.__init__ leaves it. *)
LimiterFresh ==
    /\ _minute = -1
    /\ _requests_this_minute = 0
    /\ _chars_this_minute = 0

(* C11 as stated: the processing of every book starts with the rate        *)
(* limiter in the state of a new Narrator, whatever the books before did.  *)
C11_LimiterFreshPerBook ==
    pc = "text_to_mp3" => LimiterFresh

(* C11: between two books the locals of text_to_mp3 are gone, while the    *)
(* window id and the two counters stay as the book before left them.       *)
C11_LimiterCarriedOver ==
    [][BetweenBooks =>
          /\ lines = <<>> /\ i = 0 /\ text_chunk = <<>> /\ audio_chunk = <<>>
          /\ UNCHANGED limiterVars]_vars

(* The second book starts with requests of the first counted. *)
C11_Witness ==
    /\ pc = "text_to_mp3"
    /\ book = 2
    /\ _requests_this_minute > 0
    /\ _minute # -1

(* C12: the request counter never exceeds the request quota by more than   *)
(* one.                                                                    *)
C12_RequestsAtMostOneOver ==
    _requests_this_minute <= MAX_REQUESTS_PER_MINUTE + 1

(* A plain step of _rate_limit's wait: the poll or the sleep. *)
Waiting == pc \in {"wait", "sleep"}

(* C13: when _rate_limit is entered with a counter over its quota it       *)
(* waits; while it waits no call is issued and the window id and counters  *)
(* do not change; the wait ends only on a read of the clock that differs   *)
(* from the window id.                                                     *)
C13_ThrottledWait ==
    [][/\ (/\ pc = "rate_limit"
           /\ pc' # pc
           /\ \/ _requests_this_minute > MAX_REQUESTS_PER_MINUTE
              \/ _chars_this_minute > MAX_CHARS_PER_MINUTE)
          => pc' = "wait"
       /\ Waiting =>
              /\ UNCHANGED <<limiterVars, calls, out>>
              /\ pc' \in {"wait", "sleep", "test"}
              /\ pc' = "test" => (pc = "wait" /\ now # _minute /\ now' = now)]_vars

(* A wait on the character quota alone is about to end. *)
C13_Witness ==
    /\ pc = "wait"
    /\ now # _minute
    /\ _chars_this_minute > MAX_CHARS_PER_MINUTE
    /\ _requests_this_minute <= MAX_REQUESTS_PER_MINUTE

(* C14: whenever a synthesis call is issued both counters are within       *)
(* their quotas.                                                           *)
C14_WithinQuotasAtCall ==
    pc = "response" =>
        /\ _requests_this_minute <= MAX_REQUESTS_PER_MINUTE
        /\ _chars_this_minute <= MAX_CHARS_PER_MINUTE

C16_CountersFollowCalls ==
    [][(pc = "response" /\ pc' # pc) =>
          /\ _minute' = _minute
          /\ IF raised' = "synthesize_speech"
             THEN /\ pc' = "exit"
                  /\ _requests_this_minute' = _requests_this_minute
                  /\ _chars_this_minute' = _chars_this_minute
             ELSE /\ pc' = "write"
                  /\ _requests_this_minute' = _requests_this_minute + 1
                  /\ _chars_this_minute' =
                         _chars_this_minute + Len(calls[Len(calls)].text)
                  /\ calls[Len(calls)].text = clean_text_chunk(lines[i])]_vars

(* A second call of a window has returned and the counters hold the two    *)
(* units, one of one character and one of three.                           *)
C16_Witness ==
    /\ pc = "write"
    /\ _requests_this_minute = 2
    /\ _chars_this_minute = 4

(* A unit is being prepared: from the entry of _rate_limit to the call. *)
Preparing == pc \in {"rate_limit", "wait", "sleep", "test", "reset", "call"}

(* C17: within a book the calls are issued in strictly increasing line     *)
(* order, a line at most once, and one at a time: while a unit is prepared *)
(* every call made before has returned and been written, and the call in   *)
(* flight is the one of the current line.                                  *)
C17_OneCallAtATimeInOrder ==
    /\ \A k \in 1..(Len(calls) - 1) : calls[k].line < calls[k + 1].line
    /\ Preparing =>
           /\ \A k \in 1..Len(calls) : calls[k].line < i
           /\ out = AudioOf(calls)
    /\ pc \in {"response", "write"} =>
           /\ calls # <<>>
           /\ calls[Len(calls)].line = i
           /\ out = AudioOf(SubSeq(calls, 1, Len(calls) - 1))

(* The third call of a book is in flight. *)
C17_Witness ==
    /\ pc = "response"
    /\ Len(calls) = 3

(* C18: the audio of a unit is in the file before the next unit is         *)
(* prepared: from the entry of _rate_limit for line i until its call       *)
(* returns the file holds the audio of every non-empty line before i, and  *)
(* once the call has returned only the audio of line i is still to come.   *)
C18_SinkBeforeNextUnit ==
    /\ (Preparing \/ pc = "response") =>
           out = ExpectedAudio(SubSeq(lines, 1, i - 1))
    /\ pc = "write" =>
           /\ out = ExpectedAudio(SubSeq(lines, 1, i - 1))
           /\ out \o audio_chunk = ExpectedAudio(SubSeq(lines, 1, i))
    /\ pc = "loop" => out = ExpectedAudio(SubSeq(lines, 1, i))

(* The call of a third unit is in flight with the audio of two different   *)
(* units in the file.                                                      *)
C18_Witness ==
    /\ pc = "response"
    /\ i = 3
    /\ Len(calls) = 3
    /\ calls[1].text # calls[2].text
    /\ out = synthesize_speech(calls[1].text) \o synthesize_speech(calls[2].text)

(* C19: with a backend that always returns and a clock that keeps          *)
(* advancing, text_to_mp3 returns, and every wait of _rate_limit ends and  *)
(* the unit that waited is submitted.                                      *)
C19_Terminates ==
    /\ (pc = "text_to_mp3") ~> Returned
    /\ Waiting ~> (pc = "response")

(* _rate_limit sleeps with the clock still in the window's minute. *)
C19_Witness ==
    /\ pc = "sleep"
    /\ now = _minute
    /\ i < Len(lines)

====
